---- MODULE Spec2Model ----
(***************************************************************************)
(* A model of the Biomni MCP server (src/server.py): the loader of the     *)
(* tool selection, the builder of the per-tool adapters with the body      *)
(* every adapter runs on a call, and the registration pass that main       *)
(* performs before it starts serving.                                      *)
(*                                                                         *)
(* Python values are tagged records, so that values of different Python    *)
(* types can live in one set.  A Python str is a sequence of text chunks:  *)
(* an f-string is the concatenation of its chunks.                         *)
(***************************************************************************)
EXTENDS Integers, Sequences, FiniteSets, TLC

\* ------------------------------------------------------------------------
\* Bounds of the model
\* ------------------------------------------------------------------------
\* The largest number of parameters (required plus optional) of a descriptor.
MaxParams == 2

\* ------------------------------------------------------------------------
\* Python values
\* ------------------------------------------------------------------------
PyNone == [kind |-> "None"]

PyInt(n) == [kind |-> "int", n |-> n]

PyStr(chunks) == [kind |-> "str", s |-> chunks]

PyDict(serializable) == [kind |-> "dict", serializable |-> serializable]

PyObject == [kind |-> "object"]

\* The value that stands for "does not exist" in the model's own variables.
Nothing == [kind |-> "nothing"]

\* The idle value of the variables a specification does not use.
Idle == [kind |-> "idle"]

\* The exceptions the model raises; SystemExit and KeyboardInterrupt derive
\* from BaseException only, every other one derives from Exception.
BaseOnlyExceptions == {"SystemExit", "KeyboardInterrupt"}

Raise(type, msg) == [kind |-> "raise", type |-> type, msg |-> msg]

Return(value) == [kind |-> "return", value |-> value]

\* `except Exception`: does the clause catch the exception?
IsInstanceOfException(e) == e.type \notin BaseOnlyExceptions

\* ------------------------------------------------------------------------
\* Descriptors (tool_info) and implementations (tool_func)
\* ------------------------------------------------------------------------
ParamNames == {"x", "data_path", "k"}

\* The declared type each parameter name carries in the catalog.
DeclaredType(name) ==
    IF name = "x" THEN "int"
    ELSE IF name = "data_path" THEN "str"
    ELSE "List[str]"

\* The defaults the catalog gives an optional parameter: None, which stands
\* for "no default", or a literal.
DefaultValues(name) ==
    {PyNone,
     IF name = "x" THEN PyInt(5)
     ELSE IF name = "data_path" THEN PyStr(<<"./data">>)
     ELSE PyStr(<<"hg38">>)}

RequiredSpecs == {[name |-> n, type |-> DeclaredType(n)] : n \in ParamNames}

OptionalSpecs ==
    UNION {{[name |-> n, type |-> DeclaredType(n), default |-> d] :
               d \in DefaultValues(n)} : n \in ParamNames}

SeqsUpTo(S, n) == UNION {[1..k -> S] : k \in 0..n}

Names(params) == [i \in 1..Len(params) |-> params[i].name]

Range(f) == {f[i] : i \in DOMAIN f}

Distinct(s) == \A i, j \in 1..Len(s) : i # j => s[i] # s[j]

\* The descriptors of the catalog: parameter names are unique in a descriptor.
ToolInfos ==
    {[name |-> "alpha", required_parameters |-> r, optional_parameters |-> o] :
        r \in SeqsUpTo(RequiredSpecs, MaxParams),
        o \in SeqsUpTo(OptionalSpecs, MaxParams)}

Descriptors ==
    {d \in ToolInfos :
        /\ Len(d.required_parameters) + Len(d.optional_parameters) <= MaxParams
        /\ Distinct(Names(d.required_parameters) \o Names(d.optional_parameters))}

\* What an implementation does when it is called.
Behaviours ==
    {"return_str", "return_dict", "return_unserializable", "return_other",
     "raise_Exception", "raise_BaseException"}

\* An implementation: whether its signature declares data_path, and what a
\* call of it does.
ToolFuncs ==
    {[declares_data_path |-> b, behaviour |-> h] :
        b \in BOOLEAN, h \in Behaviours}

\* os.getenv("BIOMNI_DATA_PATH", default): the default and a configured one.
DataPaths ==
    {<<"/Users/jiehoonk/DevHub/datascience/Biomni/data">>, <<"/srv/biomni">>}

\* The values a caller passes for a parameter: None, or a value of its own.
CallerValues(name) ==
    {PyNone, IF name = "data_path" THEN PyStr(<<"/custom">>) ELSE PyInt(7)}

\* ------------------------------------------------------------------------
\* State
\* ------------------------------------------------------------------------
VARIABLES
    \* -- the selection loader
    config_file,        \* the selection source on disk
    load_raised,        \* the exception that left load_tools_config, if any
    SELECTED_TOOLS,     \* the selection, Nothing before it is loaded
    \* -- the adapter
    tool_info,          \* the descriptor the adapter is built from
    tool_func,          \* the implementation the adapter is bound to
    BIOMNI_DATA_PATH,   \* the base data path, read once at startup
    dynamic_func,       \* the adapter, Nothing before it is built
    call_kwargs,        \* the arguments of the last call of the adapter
    calls,              \* the argument mappings the implementation was called
                        \* with during the last call of the adapter
    outcome,            \* how the last call of the adapter ended
    \* -- startup
    biomni,             \* what read_module2api() has to offer
    pc,                 \* where main is
    module2api,         \* the catalog, once read
    pending,            \* the items of SELECTED_TOOLS the loop has yet to take
    module_name,        \* the module the inner loop is in
    tool_index,         \* the position of the inner loop in module_tools
    registered_count,
    failed_count,
    module_registered,
    module_failed,
    module_stats,
    registry,           \* the tools of the MCP server: name -> adapter
    attempts            \* history: how each descriptor the pass tried ended

loadVars == <<config_file, load_raised>>

callVars ==
    <<tool_info, tool_func, BIOMNI_DATA_PATH, dynamic_func, call_kwargs, calls,
      outcome>>

regVars ==
    <<biomni, pc, module2api, pending, module_name, tool_index,
      registered_count, failed_count, module_registered, module_failed,
      module_stats, registry, attempts>>

vars == <<loadVars, SELECTED_TOOLS, callVars, regVars>>

\* The variables of the parts a specification leaves out.
IdleLoad == config_file = Idle /\ load_raised = Idle

IdleCall ==
    /\ tool_info = Idle
    /\ tool_func = Idle
    /\ BIOMNI_DATA_PATH = Idle
    /\ dynamic_func = Idle
    /\ call_kwargs = Idle
    /\ calls = Idle
    /\ outcome = Idle

IdleReg ==
    /\ biomni = Idle
    /\ pc = "idle"
    /\ module2api = Idle
    /\ pending = Idle
    /\ module_name = Idle
    /\ tool_index = 0
    /\ registered_count = 0
    /\ failed_count = 0
    /\ module_registered = 0
    /\ module_failed = 0
    /\ module_stats = Idle
    /\ registry = Idle
    /\ attempts = Idle

\* ------------------------------------------------------------------------
\* create_dynamic_mcp_tool
\* ------------------------------------------------------------------------
\* The Python type a declared type is mapped to; anything else is a string.
MapType(param_type) ==
    IF param_type \in {"str", "int", "float", "bool"} THEN param_type ELSE "str"

\* The annotation of a required parameter.
RequiredAnnotation(param) == [base |-> MapType(param.type), or_none |-> FALSE]

\* The annotation of an optional parameter: `base | None` when there is no
\* literal default, except for bool, which stays bare.
OptionalAnnotation(param) ==
    [base |-> MapType(param.type),
     or_none |-> param.type # "bool" /\ param.default = PyNone]

\* repr(param_default): the source text of a literal.
Repr(value) ==
    IF value.kind = "int" THEN [kind |-> "source", token |-> "number", n |-> value.n]
    ELSE IF value.kind = "str" THEN [kind |-> "source", token |-> "quoted", s |-> value.s]
    ELSE [kind |-> "source", token |-> "None"]

\* What Python evaluates the source text of a default to when the function
\* is defined.
EvalLiteral(source) ==
    IF source.token = "number" THEN PyInt(source.n)
    ELSE IF source.token = "quoted" THEN PyStr(source.s)
    ELSE PyNone

\* The entry of param_definitions for a required parameter: the bare name.
RequiredDefinition(param) == [name |-> param.name, default |-> Nothing]

\* The entry of param_definitions for an optional parameter: name=default.
OptionalDefinition(param) ==
    [name |-> param.name,
     default |-> IF param.default # PyNone THEN Repr(param.default)
                 ELSE [kind |-> "source", token |-> "None"]]

\* The optional parameters, then the required ones.
ParamDefinitionsOptionalFirst(info) ==
    [i \in 1..Len(info.optional_parameters) |->
        OptionalDefinition(info.optional_parameters[i])]
    \o [i \in 1..Len(info.required_parameters) |->
        RequiredDefinition(info.required_parameters[i])]

\* param_definitions: the required parameters, then the optional ones.
ParamDefinitions(info) ==
    [i \in 1..Len(info.required_parameters) |->
        RequiredDefinition(info.required_parameters[i])]
    \o [i \in 1..Len(info.optional_parameters) |->
        OptionalDefinition(info.optional_parameters[i])]

\* param_names, which the execution body iterates over.
ParamNamesOf(info) ==
    Names(info.required_parameters) \o Names(info.optional_parameters)

TypeAnnotations(info) ==
    [n \in Range(ParamNamesOf(info)) |->
        IF \E i \in 1..Len(info.required_parameters) :
              info.required_parameters[i].name = n
        THEN RequiredAnnotation(
                 CHOOSE p \in Range(info.required_parameters) : p.name = n)
        ELSE OptionalAnnotation(
                 CHOOSE p \in Range(info.optional_parameters) : p.name = n)]

\* The adapter: the function `def tool_name(param_definitions)` with the
\* names the body closes over.
CreateDynamicMcpTool(tool_name, func, info) ==
    [kind |-> "function",
     name |-> tool_name,
     signature |-> ParamDefinitions(info),
     param_names |-> ParamNamesOf(info),
     annotations |-> TypeAnnotations(info),
     returns |-> "str"]

\* ------------------------------------------------------------------------
\* _execute_tool
\* ------------------------------------------------------------------------
\* Every argument that is present, None or not.
CallParamsKeepNone(param_names, params) ==
    LET keep == {n \in Range(param_names) : n \in DOMAIN params}
    IN  [n \in keep |-> params[n]]

\* The required and optional arguments that are present and not None.
CallParams(param_names, params) ==
    LET keep == {n \in Range(param_names) :
                    n \in DOMAIN params /\ params[n] # PyNone}
    IN  [n \in keep |-> params[n]]

\* f"{BIOMNI_DATA_PATH}/biomni_data/data_lake"
DataLakePath(base) == PyStr(base \o <<"/biomni_data/data_lake">>)

\* data_path is set whenever the implementation declares it.
InjectDataPathOverwrites(call_params, func, base) ==
    IF func.declares_data_path
    THEN [n \in DOMAIN call_params \cup {"data_path"} |->
            IF n = "data_path" THEN DataLakePath(base) ELSE call_params[n]]
    ELSE call_params

\* data_path is added when the implementation declares it and the call
\* parameters do not have it.
InjectDataPath(call_params, func, base) ==
    IF func.declares_data_path /\ "data_path" \notin DOMAIN call_params
    THEN [n \in DOMAIN call_params \cup {"data_path"} |->
            IF n = "data_path" THEN DataLakePath(base) ELSE call_params[n]]
    ELSE call_params

\* tool_func(**call_params): what the implementation does.
ToolFuncCall(func, call_params) ==
    IF func.behaviour = "return_str" THEN Return(PyStr(<<"result text">>))
    ELSE IF func.behaviour = "return_dict" THEN Return(PyDict(TRUE))
    ELSE IF func.behaviour = "return_unserializable" THEN Return(PyDict(FALSE))
    ELSE IF func.behaviour = "return_other" THEN Return(PyObject)
    ELSE IF func.behaviour = "raise_Exception"
         THEN Raise("ValueError", <<"tool failed">>)
    ELSE Raise("SystemExit", <<"1">>)

\* The result as text: a str as it is, a dict or list through json.dumps,
\* which raises TypeError on a value JSON cannot hold, the rest through str.
FormatResult(result) ==
    IF result.kind = "str" THEN Return(result)
    ELSE IF result.kind = "dict"
         THEN IF result.serializable
              THEN Return(PyStr(<<"{", "json", "}">>))
              ELSE Raise("TypeError", <<"Object is not JSON serializable">>)
    ELSE Return(PyStr(<<"<object>">>))

\* A message that leaves the tool's name out.
ErrorMsgWithoutName(name, e) == PyStr(<<"Error: ">> \o e.msg)

\* f"❌ Error executing {name}: {str(e)}"
ErrorMsg(name, e) == PyStr(<<"Error executing ", name, ": ">> \o e.msg)

\* A body that calls the implementation again when it raised.
ExecuteToolRetries(name, params, param_names, func, base) ==
    LET call_params == InjectDataPath(CallParams(param_names, params), func, base)
        raw == ToolFuncCall(func, call_params)
        tried == IF raw.kind = "raise" THEN raw ELSE FormatResult(raw.value)
    IN  [result |-> IF tried.kind = "raise" /\ IsInstanceOfException(tried)
                    THEN Return(ErrorMsg(name, tried))
                    ELSE tried,
         calls |-> IF raw.kind = "raise" THEN <<call_params, call_params>>
                   ELSE <<call_params>>]

\* The body of the adapter: [result, calls], where result is what the body
\* returns or the exception that leaves it, and calls the argument mappings
\* the implementation was called with.
ExecuteTool(name, params, param_names, func, base) ==
    LET call_params == InjectDataPath(CallParams(param_names, params), func, base)
        raw == ToolFuncCall(func, call_params)
        tried == IF raw.kind = "raise" THEN raw ELSE FormatResult(raw.value)
    IN  [result |-> IF tried.kind = "raise" /\ IsInstanceOfException(tried)
                    THEN Return(ErrorMsg(name, tried))
                    ELSE tried,
         calls |-> <<call_params>>]

\* ------------------------------------------------------------------------
\* Calling the adapter
\* ------------------------------------------------------------------------
SignatureNames(func) == Range(Names(func.signature))

\* Python binds keyword arguments to the signature: every name is a
\* parameter and every parameter without a default has an argument.
BindsNames(func, names) ==
    /\ names \subseteq SignatureNames(func)
    /\ \A i \in 1..Len(func.signature) :
          func.signature[i].default = Nothing
              => func.signature[i].name \in names

Binds(func, kwargs) == BindsNames(func, DOMAIN kwargs)

\* locals() of the adapter: the arguments, and the defaults of the
\* parameters the call leaves out.
Locals(func, kwargs) ==
    [n \in SignatureNames(func) |->
        IF n \in DOMAIN kwargs THEN kwargs[n]
        ELSE EvalLiteral(
                 (CHOOSE d \in Range(func.signature) : d.name = n).default)]

KwargsOver(names) ==
    UNION {{kwargs \in [S -> UNION {CallerValues(n) : n \in S}] :
               \A n \in S : kwargs[n] \in CallerValues(n)} :
           S \in SUBSET names}

\* ------------------------------------------------------------------------
\* Actions of the adapter
\* ------------------------------------------------------------------------
InitCall ==
    /\ tool_info \in Descriptors
    /\ tool_func \in ToolFuncs
    /\ BIOMNI_DATA_PATH \in DataPaths
    /\ dynamic_func = Nothing
    /\ call_kwargs = Nothing
    /\ calls = <<>>
    /\ outcome = Nothing
    /\ SELECTED_TOOLS = Idle
    /\ IdleLoad
    /\ IdleReg

\* mcp_tool_func = create_dynamic_mcp_tool(tool_name, tool_func, tool_info)
BuildAdapter ==
    /\ dynamic_func = Nothing
    /\ dynamic_func' = CreateDynamicMcpTool(tool_info.name, tool_func, tool_info)
    /\ UNCHANGED <<tool_info, tool_func, BIOMNI_DATA_PATH, call_kwargs, calls,
                   outcome>>
    /\ UNCHANGED <<loadVars, SELECTED_TOOLS, regVars>>

\* A call of the adapter by the serving layer, with arguments that bind to
\* its signature: return _execute_tool(tool_name, locals()).
CallAdapter ==
    /\ dynamic_func # Nothing
    /\ outcome = Nothing
    /\ \E kwargs \in KwargsOver(ParamNames) :
          /\ Binds(dynamic_func, kwargs)
          /\ LET run == ExecuteTool(dynamic_func.name,
                                    Locals(dynamic_func, kwargs),
                                    dynamic_func.param_names, tool_func,
                                    BIOMNI_DATA_PATH)
             IN  /\ call_kwargs' = kwargs
                 /\ calls' = run.calls
                 /\ outcome' = run.result
    /\ UNCHANGED <<tool_info, tool_func, BIOMNI_DATA_PATH, dynamic_func>>
    /\ UNCHANGED <<loadVars, SELECTED_TOOLS, regVars>>

\* The serving layer sends the text to the caller; the adapter can be
\* called again.  An exception that left the adapter is not answered.
Respond ==
    /\ outcome # Nothing
    /\ outcome.kind = "return"
    /\ call_kwargs' = Nothing
    /\ calls' = <<>>
    /\ outcome' = Nothing
    /\ UNCHANGED <<tool_info, tool_func, BIOMNI_DATA_PATH, dynamic_func>>
    /\ UNCHANGED <<loadVars, SELECTED_TOOLS, regVars>>

NextCall == BuildAdapter \/ CallAdapter \/ Respond

SpecCall == InitCall /\ [][NextCall]_vars

\* ------------------------------------------------------------------------
\* Properties of the adapter
\* ------------------------------------------------------------------------
\* A call of the adapter has ended.
Called == outcome # Nothing

RequiredNames == Range(Names(tool_info.required_parameters))

OptionalNames == Range(Names(tool_info.optional_parameters))

\* The default the descriptor gives an optional parameter.
DefaultOf(n) ==
    (CHOOSE p \in Range(tool_info.optional_parameters) : p.name = n).default

\* The optional parameters the last call left out.
Omitted == OptionalNames \ DOMAIN call_kwargs

ImplRaises == tool_func.behaviour \in {"raise_Exception", "raise_BaseException"}

IsText(result) == result.kind = "return" /\ result.value.kind = "str"

ContainsName(result) == \E i \in 1..Len(result.value.s) : result.value.s[i] = tool_info.name

C2_OmittedNeverNull ==
    Called =>
        \A n \in Omitted :
            /\ n \in DOMAIN calls[1] => calls[1][n] # PyNone
            /\ DefaultOf(n) # PyNone
                  => n \in DOMAIN calls[1] /\ calls[1][n] = DefaultOf(n)
            /\ (DefaultOf(n) = PyNone
                /\ ~(n = "data_path" /\ tool_func.declares_data_path))
                  => n \notin DOMAIN calls[1]
            /\ (DefaultOf(n) = PyNone /\ n = "data_path"
                /\ tool_func.declares_data_path)
                  => calls[1][n] = DataLakePath(BIOMNI_DATA_PATH)

\* C2 as stated: for an optional parameter the call leaves out, the
\* implementation receives no entry, with or without a literal default.
C2_OmittedNoEntry ==
    Called => \A n \in Omitted : n \notin DOMAIN calls[1]

C2_Witness ==
    /\ Called
    /\ \E n, m \in Omitted :
          /\ DefaultOf(n) = PyNone
          /\ n \notin DOMAIN calls[1]
          /\ DefaultOf(m) # PyNone
          /\ calls[1][m] = DefaultOf(m)

\* The call carries a value for data_path: the caller passed one that is
\* not None, or left out an optional data_path that has a literal default.
CarriesDataPath ==
    \/ "data_path" \in DOMAIN call_kwargs /\ call_kwargs["data_path"] # PyNone
    \/ "data_path" \in Omitted /\ DefaultOf("data_path") # PyNone

CarriedDataPath ==
    IF "data_path" \in DOMAIN call_kwargs THEN call_kwargs["data_path"]
    ELSE DefaultOf("data_path")

\* C3 as amended: the implementation receives the data lake path under
\* data_path if and only if its signature declares data_path and the call
\* carries no value for it, where the literal default of an optional
\* data_path the caller leaves out counts as carried; a value the call
\* carries reaches the implementation unchanged, and without the declaration
\* nothing is added.
C3_DataPathInjection ==
    Called =>
        /\ (tool_func.declares_data_path /\ ~CarriesDataPath)
              => /\ "data_path" \in DOMAIN calls[1]
                 /\ calls[1]["data_path"] = DataLakePath(BIOMNI_DATA_PATH)
        /\ CarriesDataPath
              => /\ "data_path" \in DOMAIN calls[1]
                 /\ calls[1]["data_path"] = CarriedDataPath
        /\ (~tool_func.declares_data_path /\ ~CarriesDataPath)
              => "data_path" \notin DOMAIN calls[1]

\* The caller passed a data_path that is not None.
CallerSuppliesDataPath ==
    "data_path" \in DOMAIN call_kwargs /\ call_kwargs["data_path"] # PyNone

\* C3 as stated: the implementation receives the data lake path under
\* data_path if and only if its signature declares data_path and the caller
\* supplied no value for it; a value the caller supplied is not overwritten.
C3_InjectedUnlessCallerSupplied ==
    Called =>
        /\ (tool_func.declares_data_path /\ ~CallerSuppliesDataPath)
              <=> /\ "data_path" \in DOMAIN calls[1]
                  /\ calls[1]["data_path"] = DataLakePath(BIOMNI_DATA_PATH)
        /\ CallerSuppliesDataPath
              => /\ "data_path" \in DOMAIN calls[1]
                 /\ calls[1]["data_path"] = call_kwargs["data_path"]

C3_Witness ==
    /\ Called
    /\ tool_func.declares_data_path
    /\ "data_path" \notin DOMAIN call_kwargs
    /\ "x" \in DOMAIN call_kwargs
    /\ calls[1]["data_path"] =
          PyStr(<<"/srv/biomni", "/biomni_data/data_lake">>)

\* C8: the adapter's parameters are the required names followed by the
\* optional names, in descriptor order; a call binds only if all its names
\* are among them, and every one of them is taken by some call that binds.
C8_ExactParameters ==
    dynamic_func # Nothing =>
        /\ Names(dynamic_func.signature)
              = Names(tool_info.required_parameters)
                \o Names(tool_info.optional_parameters)
        /\ \A S \in SUBSET ParamNames :
              BindsNames(dynamic_func, S)
                  => S \subseteq RequiredNames \cup OptionalNames
        /\ \A n \in RequiredNames \cup OptionalNames :
              \E S \in SUBSET ParamNames :
                  n \in S /\ BindsNames(dynamic_func, S)

C8_Witness ==
    /\ dynamic_func # Nothing
    /\ Len(tool_info.required_parameters) = 1
    /\ Len(tool_info.optional_parameters) = 1
    /\ Called
    /\ DOMAIN call_kwargs = RequiredNames \cup OptionalNames

\* C9: when the implementation declares no data_path, the call passes no
\* None and leaves out no optional parameter that has a literal default, the
\* implementation is called once, with exactly the caller's arguments.
C9_ExactForwarding ==
    (/\ Called
     /\ ~tool_func.declares_data_path
     /\ \A n \in DOMAIN call_kwargs : call_kwargs[n] # PyNone
     /\ \A n \in Omitted : DefaultOf(n) = PyNone)
        => calls = <<call_kwargs>>

C9_Witness ==
    /\ Called
    /\ ~tool_func.declares_data_path
    /\ Names(tool_info.required_parameters) = <<"x">>
    /\ tool_info.optional_parameters = <<>>
    /\ call_kwargs = [n \in {"x"} |-> PyInt(7)]
    /\ calls = <<[n \in {"x"} |-> PyInt(7)]>>

\* ------------------------------------------------------------------------
\* The selection source
\* ------------------------------------------------------------------------
\* The longest list of tool names a module has in the selection source.
MaxSelected == 2

\* What json.load yields: None, numbers, strings, lists and dicts.  A dict
\* is the function from its keys to its values.
PyList(items) == [kind |-> "list", items |-> items]

PyMap(entries) == [kind |-> "dict", entries |-> entries]

SupportModule == "biomni.tool.support_tools"

ConfigModules == {SupportModule, "biomni.tool.genomics"}

ToolNames == {"run_python_repl", "read_function_source_code"}

\* The values a module can have under selected_tools: lists of tool names,
\* and values of other types.
ModuleValues ==
    {PyList(l) : l \in SeqsUpTo(ToolNames, MaxSelected)}
    \cup {PyStr(<<"run_python_repl">>), PyInt(1), PyNone, PyMap(<<>>)}

SelectedToolsValues ==
    {PyNone, PyInt(3), PyStr(<<"all">>), PyList(<<>>)}
    \cup {PyMap(f) : f \in UNION {[S -> ModuleValues] : S \in SUBSET ConfigModules}}

ConfigInfoValues ==
    {PyNone, PyInt(0), PyInt(3), PyStr(<<>>), PyStr(<<"v1">>), PyList(<<>>),
     PyList(<<"note">>), PyMap(<<>>),
     PyMap([k \in {"description"} |-> PyStr(<<"curated">>)]),
     PyMap([k \in {"description", "success_rate"} |-> PyStr(<<"90%">>)])}

\* The documents: values that are no object, and objects with or without each
\* of the two fields.
Documents ==
    {PyNone, PyInt(3), PyStr(<<"text">>), PyList(<<>>), PyMap(<<>>)}
    \cup {PyMap([k \in {"selected_tools"} |-> st]) : st \in SelectedToolsValues}
    \cup {PyMap([k \in {"config_info"} |-> ci]) : ci \in ConfigInfoValues}
    \cup {PyMap([k \in {"selected_tools", "config_info"} |->
                    IF k = "selected_tools" THEN st ELSE ci]) :
            st \in SelectedToolsValues, ci \in ConfigInfoValues}

\* The states of the file BIOMNI_TOOLS_CONFIG names.
ConfigFiles ==
    {[state |-> "missing"], [state |-> "unreadable"], [state |-> "not_json"]}
    \cup {[state |-> "json", doc |-> d] : d \in Documents}

\* ------------------------------------------------------------------------
\* load_tools_config
\* ------------------------------------------------------------------------
\* The minimal default configuration.
Fallback ==
    PyMap([m \in {SupportModule} |->
              PyList(<<"run_python_repl", "read_function_source_code">>)])

\* bool(value)
Truthy(value) ==
    IF value.kind = "None" THEN FALSE
    ELSE IF value.kind = "int" THEN value.n # 0
    ELSE IF value.kind = "str" THEN value.s # <<>>
    ELSE IF value.kind = "list" THEN value.items # <<>>
    ELSE IF value.kind = "dict" THEN DOMAIN value.entries # {}
    ELSE TRUE

\* len(value) is defined
HasLen(value) == value.kind \in {"str", "list", "dict"}

\* dict.get(key, default)
DictGet(dict, key, default) ==
    IF key \in DOMAIN dict.entries THEN dict.entries[key] ELSE default

\* The body of the try block: open, json.load, the summary, return.
ReadConfig(file) ==
    IF file.state = "unreadable"
    THEN Raise("PermissionError", <<"Permission denied">>)
    ELSE IF file.state = "not_json"
    THEN Raise("JSONDecodeError", <<"Expecting value">>)
    ELSE LET config == file.doc IN
        IF config.kind # "dict"
        THEN Raise("AttributeError", <<"object has no attribute 'get'">>)
        ELSE LET selected_tools == DictGet(config, "selected_tools", PyMap(<<>>))
                 config_info == DictGet(config, "config_info", PyMap(<<>>))
             IN  IF selected_tools.kind # "dict"
                 THEN Raise("AttributeError",
                            <<"object has no attribute 'values'">>)
                 ELSE IF \E m \in DOMAIN selected_tools.entries :
                            ~HasLen(selected_tools.entries[m])
                 THEN Raise("TypeError", <<"object has no len()">>)
                 ELSE IF Truthy(config_info) /\ config_info.kind # "dict"
                 THEN Raise("AttributeError",
                            <<"object has no attribute 'get'">>)
                 ELSE Return(selected_tools)

\* Only the JSONDecodeError clause.
ConfigHandlerCatchesJsonOnly(e) == e.type = "JSONDecodeError"

\* The except clauses of load_tools_config: JSONDecodeError, then Exception.
ConfigHandlerCatches(e) ==
    e.type = "JSONDecodeError" \/ IsInstanceOfException(e)

LoadToolsConfig(file) ==
    IF file.state = "missing" THEN Return(Fallback)
    ELSE LET tried == ReadConfig(file)
         IN  IF tried.kind = "raise" /\ ConfigHandlerCatches(tried)
             THEN Return(Fallback)
             ELSE tried

InitLoad ==
    /\ config_file \in ConfigFiles
    /\ load_raised = Nothing
    /\ SELECTED_TOOLS = Nothing
    /\ IdleCall
    /\ IdleReg

\* SELECTED_TOOLS = load_tools_config()
LoadConfig ==
    /\ SELECTED_TOOLS = Nothing
    /\ load_raised = Nothing
    /\ LET done == LoadToolsConfig(config_file)
       IN  IF done.kind = "return"
           THEN SELECTED_TOOLS' = done.value /\ load_raised' = load_raised
           ELSE SELECTED_TOOLS' = SELECTED_TOOLS /\ load_raised' = done
    /\ UNCHANGED <<config_file, callVars, regVars>>

NextLoad == LoadConfig

SpecLoad == InitLoad /\ [][NextLoad]_vars

\* ------------------------------------------------------------------------
\* Properties of load_tools_config
\* ------------------------------------------------------------------------
Loaded == SELECTED_TOOLS # Nothing \/ load_raised # Nothing

IsJsonObject == config_file.state = "json" /\ config_file.doc.kind = "dict"

HasField(key) == IsJsonObject /\ key \in DOMAIN config_file.doc.entries

Field(key) == config_file.doc.entries[key]

\* The sources on which the loader falls back: no file, a file that cannot
\* be read or is not JSON, a document that is no object, a selected_tools
\* that is no object or has a module whose value has no length, a
\* config_info that is neither empty nor an object.
FallsBack ==
    \/ config_file.state \in {"missing", "unreadable", "not_json"}
    \/ ~IsJsonObject
    \/ /\ HasField("selected_tools")
       /\ \/ Field("selected_tools").kind # "dict"
          \/ \E m \in DOMAIN Field("selected_tools").entries :
                Field("selected_tools").entries[m].kind \in {"None", "int"}
    \/ /\ HasField("config_info")
       /\ Field("config_info") \in {PyInt(3), PyStr(<<"v1">>), PyList(<<"note">>)}

\* The documented shape: an object whose selected_tools maps every module to
\* a list of tool names.
WellShaped ==
    /\ HasField("selected_tools")
    /\ Field("selected_tools").kind = "dict"
    /\ \A m \in DOMAIN Field("selected_tools").entries :
          Field("selected_tools").entries[m].kind = "list"

MaxCatalog == 2

\* The descriptors of the catalog, as far as the registration pass reads them.
CatalogEntries == {[name |-> n] : n \in ToolNames}

\* What read_module2api() does: it raises, or returns module -> descriptors.
Catalogs ==
    {[kind |-> "broken"]}
    \cup {[kind |-> "catalog", modules |-> f] :
            f \in UNION {[S -> SeqsUpTo(CatalogEntries, MaxCatalog)] :
                            S \in SUBSET ConfigModules}}

\* The lists of tool names a module has in a well-formed selection.
SelectionLists ==
    {<<>>, <<"run_python_repl">>, <<"read_function_source_code">>,
     <<"run_python_repl", "read_function_source_code">>}

\* The selections load_tools_config returns from a well-formed source.
Selections ==
    {PyMap(f) :
        f \in UNION {[S -> {PyList(l) : l \in SelectionLists}] :
                        S \in SUBSET ConfigModules}}

\* The orders a dict with these keys can have.
Orders(S) == {o \in [1..Cardinality(S) -> S] : Range(o) = S}

\* How importing the module, getting the function, reading its signature,
\* building the adapter and registering it can end.
ResolutionOutcomes == {"ok", "ImportError", "AttributeError", "ValueError"}

Resolution(how) ==
    IF how = "ok" THEN Return(PyObject) ELSE Raise(how, <<"failed">>)

\* read_module2api()
ReadModule2Api(source) ==
    IF source.kind = "broken"
    THEN Raise("FileNotFoundError", <<"tool_description">>)
    ELSE Return(PyMap(source.modules))

\* The except clause around read_module2api(): Exception.
CatalogHandlerCatches(e) == IsInstanceOfException(e)

\* Only the ImportError and AttributeError clauses.
ToolHandlerCatchesNamed(e) == e.type = "ImportError" \/ e.type = "AttributeError"

\* The except clauses of the tool loop: ImportError, AttributeError, Exception.
ToolHandlerCatches(e) ==
    e.type = "ImportError" \/ e.type = "AttributeError" \/ IsInstanceOfException(e)

\* A server that replaces the tool a name already has.
RegisterOverwrites(tools, name, adapter) ==
    [n \in DOMAIN tools \cup {name} |-> IF n = name THEN adapter ELSE tools[n]]

\* mcp.tool(name=tool_name)(mcp_tool_func): the server keeps the tool a name
\* already has.
Register(tools, name, adapter) ==
    IF name \in DOMAIN tools THEN tools
    ELSE [n \in DOMAIN tools \cup {name} |->
            IF n = name THEN adapter ELSE tools[n]]

\* dict[key] = value
DictSet(dict, key, value) ==
    [k \in DOMAIN dict \cup {key} |-> IF k = key THEN value ELSE dict[k]]

\* The success rate line of the summary: the division is made only when
\* something was counted.
SuccessRate(registered, failed) ==
    IF registered + failed > 0
    THEN PyInt((registered * 100) \div (registered + failed))
    ELSE PyStr(<<"N/A">>)

\* The statistics of a module that is not in the catalog.
NotFoundStats == [found |-> FALSE, registered |-> 0, failed |-> 0]

\* Statistics with the two counts swapped.
FoundStatsSwapped(registered, failed, selected, available) ==
    [found |-> TRUE, registered |-> failed, failed |-> registered,
     selected |-> selected, available |-> available]

\* The statistics of a module whose descriptors were gone through.
FoundStats(registered, failed, selected, available) ==
    [found |-> TRUE, registered |-> registered, failed |-> failed,
     selected |-> selected, available |-> available]

InitReg ==
    /\ SELECTED_TOOLS \in Selections
    /\ biomni \in Catalogs
    /\ pc = "main"
    /\ module2api = Nothing
    /\ pending = <<>>
    /\ module_name = ""
    /\ tool_index = 0
    /\ registered_count = 0
    /\ failed_count = 0
    /\ module_registered = 0
    /\ module_failed = 0
    /\ module_stats = <<>>
    /\ registry = <<>>
    /\ attempts = <<>>
    /\ IdleLoad
    /\ IdleCall

\* main calls register_selected_tools, which reads the catalog; when that
\* raises it prints and returns, otherwise it starts the loop over
\* SELECTED_TOOLS.items().
ReadCatalog ==
    /\ pc = "main"
    /\ LET tried == ReadModule2Api(biomni)
       IN  IF tried.kind = "raise"
           THEN /\ pc' = IF CatalogHandlerCatches(tried) THEN "returned"
                         ELSE "crashed"
                /\ UNCHANGED <<module2api, pending>>
           ELSE /\ module2api' = tried.value
                /\ pending' \in Orders(DOMAIN SELECTED_TOOLS.entries)
                /\ pc' = "modules"
    /\ UNCHANGED <<biomni, module_name, tool_index, registered_count,
                   failed_count, module_registered, module_failed,
                   module_stats, registry, attempts>>
    /\ UNCHANGED <<loadVars, SELECTED_TOOLS, callVars>>

\* A pass that gives up at the first module that is not in the catalog.
ModuleNotFoundReturns ==
    /\ pc = "modules"
    /\ pending # <<>>
    /\ Head(pending) \notin DOMAIN module2api.entries
    /\ module_stats' = DictSet(module_stats, Head(pending), NotFoundStats)
    /\ pc' = "returned"
    /\ UNCHANGED <<biomni, pending, module2api, module_name, tool_index,
                   registered_count, failed_count, module_registered,
                   module_failed, registry, attempts>>
    /\ UNCHANGED <<loadVars, SELECTED_TOOLS, callVars>>

\* The next module of the selection is not in the catalog.
ModuleNotFound ==
    /\ pc = "modules"
    /\ pending # <<>>
    /\ Head(pending) \notin DOMAIN module2api.entries
    /\ module_stats' = DictSet(module_stats, Head(pending), NotFoundStats)
    /\ pending' = Tail(pending)
    /\ UNCHANGED <<biomni, pc, module2api, module_name, tool_index,
                   registered_count, failed_count, module_registered,
                   module_failed, registry, attempts>>
    /\ UNCHANGED <<loadVars, SELECTED_TOOLS, callVars>>

\* The next module of the selection is in the catalog: the inner loop starts.
EnterModule ==
    /\ pc = "modules"
    /\ pending # <<>>
    /\ Head(pending) \in DOMAIN module2api.entries
    /\ module_name' = Head(pending)
    /\ pending' = Tail(pending)
    /\ tool_index' = 1
    /\ module_registered' = 0
    /\ module_failed' = 0
    /\ pc' = "tools"
    /\ UNCHANGED <<biomni, module2api, registered_count, failed_count,
                   module_stats, registry, attempts>>
    /\ UNCHANGED <<loadVars, SELECTED_TOOLS, callVars>>

module_tools == module2api.entries[module_name]

selected_tool_names == SELECTED_TOOLS.entries[module_name].items

\* A descriptor whose name is not in the selection is passed over.
SkipTool ==
    /\ pc = "tools"
    /\ tool_index <= Len(module_tools)
    /\ module_tools[tool_index].name \notin Range(selected_tool_names)
    /\ tool_index' = tool_index + 1
    /\ UNCHANGED <<biomni, pc, module2api, pending, module_name,
                   registered_count, failed_count, module_registered,
                   module_failed, module_stats, registry, attempts>>
    /\ UNCHANGED <<loadVars, SELECTED_TOOLS, callVars>>

\* A selected descriptor: the body of the try block and its except clauses.
RegisterTool ==
    /\ pc = "tools"
    /\ tool_index <= Len(module_tools)
    /\ module_tools[tool_index].name \in Range(selected_tool_names)
    /\ \E how \in ResolutionOutcomes :
          LET tool_name == module_tools[tool_index].name
              tried == Resolution(how)
              key == <<module_name, tool_index>>
          IN  IF tried.kind = "return"
              THEN /\ registry' =
                         Register(registry, tool_name,
                                  [module |-> module_name, index |-> tool_index])
                   /\ registered_count' = registered_count + 1
                   /\ module_registered' = module_registered + 1
                   /\ attempts' = DictSet(attempts, key, "ok")
                   /\ tool_index' = tool_index + 1
                   /\ UNCHANGED <<pc, failed_count, module_failed>>
              ELSE IF ToolHandlerCatches(tried)
              THEN /\ failed_count' = failed_count + 1
                   /\ module_failed' = module_failed + 1
                   /\ attempts' = DictSet(attempts, key, "failed")
                   /\ tool_index' = tool_index + 1
                   /\ UNCHANGED <<pc, registry, registered_count,
                                  module_registered>>
              ELSE /\ pc' = "crashed"
                   /\ UNCHANGED <<registry, registered_count, failed_count,
                                  module_registered, module_failed, attempts,
                                  tool_index>>
    /\ UNCHANGED <<biomni, module2api, pending, module_name, module_stats>>
    /\ UNCHANGED <<loadVars, SELECTED_TOOLS, callVars>>

\* The inner loop is over: the module's statistics are stored.
EndModule ==
    /\ pc = "tools"
    /\ tool_index > Len(module_tools)
    /\ module_stats' =
          DictSet(module_stats, module_name,
                  FoundStats(module_registered, module_failed,
                             Len(selected_tool_names), Len(module_tools)))
    /\ pc' = "modules"
    /\ UNCHANGED <<biomni, module2api, pending, module_name, tool_index,
                   registered_count, failed_count, module_registered,
                   module_failed, registry, attempts>>
    /\ UNCHANGED <<loadVars, SELECTED_TOOLS, callVars>>

\* The outer loop is over: the summary is printed and the pass returns.
PrintSummary ==
    /\ pc = "modules"
    /\ pending = <<>>
    /\ SuccessRate(registered_count, failed_count).kind \in {"int", "str"}
    /\ pc' = "returned"
    /\ UNCHANGED <<biomni, module2api, pending, module_name, tool_index,
                   registered_count, failed_count, module_registered,
                   module_failed, module_stats, registry, attempts>>
    /\ UNCHANGED <<loadVars, SELECTED_TOOLS, callVars>>

\* main goes on to mcp.run(transport="stdio").
StartServer ==
    /\ pc = "returned"
    /\ pc' = "serving"
    /\ UNCHANGED <<biomni, module2api, pending, module_name, tool_index,
                   registered_count, failed_count, module_registered,
                   module_failed, module_stats, registry, attempts>>
    /\ UNCHANGED <<loadVars, SELECTED_TOOLS, callVars>>

NextReg ==
    \/ ReadCatalog
    \/ ModuleNotFound
    \/ EnterModule
    \/ SkipTool
    \/ RegisterTool
    \/ EndModule
    \/ PrintSummary
    \/ StartServer

SpecReg == InitReg /\ [][NextReg]_vars

\* main runs on its own: every step that can be taken is taken.
SpecRegFair == SpecReg /\ WF_vars(NextReg)

\* ------------------------------------------------------------------------
\* Properties of startup
\* ------------------------------------------------------------------------
\* The registration pass went through the whole selection and returned.
PassEnded == pc \in {"returned", "serving"} /\ module2api # Nothing

SelectedModules == DOMAIN SELECTED_TOOLS.entries

\* The positions in the catalog of module m whose descriptor is selected.
SelectedDescriptors(m) ==
    {i \in 1..Len(module2api.entries[m]) :
        module2api.entries[m][i].name \in Range(SELECTED_TOOLS.entries[m].items)}

\* The positions of module m the pass tried, and those that ended as `how`.
Tried(m) == {i \in 1..MaxCatalog + 1 : <<m, i>> \in DOMAIN attempts}

TriedAs(m, how) == {i \in Tried(m) : attempts[<<m, i>>] = how}

\* The sum of one count of the statistics over the modules of S.
RECURSIVE SumOver(_, _)
SumOver(S, count) ==
    IF S = {} THEN 0
    ELSE LET m == CHOOSE y \in S : TRUE
         IN  module_stats[m][count] + SumOver(S \ {m}, count)

\* C4: a name the server has keeps its adapter in every step; registering a
\* name the server has leaves the tools as they are, and registering a new
\* name adds exactly that name with the adapter just built.
C4_FirstRegistrationWins ==
    [][LET registering == pc = "tools" /\ registered_count' = registered_count + 1
           name == module_tools[tool_index].name
       IN  /\ \A n \in DOMAIN registry :
                 n \in DOMAIN registry' /\ registry'[n] = registry[n]
           /\ (registering /\ name \in DOMAIN registry) => registry' = registry
           /\ (registering /\ name \notin DOMAIN registry)
                 => /\ DOMAIN registry' = DOMAIN registry \cup {name}
                    /\ registry'[name] =
                          [module |-> module_name, index |-> tool_index]
      ]_vars

\* A name was registered a second time, from another module.
C4_Witness ==
    /\ pc = "serving"
    /\ \E n \in DOMAIN registry :
          \E k \in DOMAIN attempts :
              /\ attempts[k] = "ok"
              /\ k[1] # registry[n].module
              /\ module2api.entries[k[1]][k[2]].name = n

C10_CountersConsistent ==
    PassEnded =>
        /\ DOMAIN module_stats = SelectedModules
        /\ registered_count = SumOver(SelectedModules, "registered")
        /\ failed_count = SumOver(SelectedModules, "failed")
        /\ \A m \in SelectedModules :
              IF m \notin DOMAIN module2api.entries
              THEN module_stats[m] = NotFoundStats
              ELSE /\ module_stats[m].found
                   /\ module_stats[m].registered + module_stats[m].failed
                         = Cardinality(SelectedDescriptors(m))
                   /\ module_stats[m].registered = Cardinality(TriedAs(m, "ok"))
                   /\ module_stats[m].failed = Cardinality(TriedAs(m, "failed"))

\* Two found modules with counts, one of them with a selected name that has
\* no descriptor.
C10_Witness ==
    /\ PassEnded
    /\ registered_count = 2
    /\ failed_count = 1
    /\ \E m \in SelectedModules :
          /\ m \in DOMAIN module2api.entries
          /\ module_stats[m].registered + module_stats[m].failed
                < module_stats[m].selected

====
